---- MODULE Spec2Model ----
(***************************************************************************)
(* dispatchlib: predicate-ordered dispatch engines.                        *)
(*                                                                         *)
(* Two engines are modelled, both from src/dispatchlib/core.py:            *)
(*   - the strict engine built by metadispatch(); the module-level         *)
(*     _default_metadispatcher (the Check Compiler) is one, seeded with    *)
(*     five builders, and callers may register further builders on it;     *)
(*   - the engine built by dispatch() (the Dispatch Factory), whose        *)
(*     register() compiles a check specification with the Check Compiler.  *)
(*                                                                         *)
(* Python objects are records with a field k naming their kind.  Python    *)
(* strings that the code takes apart (splitext, split, find, repr) are     *)
(* sequences of one-character strings.                                     *)
(***************************************************************************)
EXTENDS Integers, Sequences, FiniteSets, TLC

VARIABLES
    built,       \* whether dispatch() has constructed the factory engine
    registry,    \* dispatch(): registry, a SortedKeyList of DispatchedCallable
    mregistry,   \* metadispatch(): registry of the Check Compiler
    decorator,   \* the closure returned by the last dispatch.register() call
    last         \* what the last operation did (its outcome, as its caller sees it)

vars == <<built, registry, mregistry, decorator, last>>

-----------------------------------------------------------------------------
(* Bounds of the model.                                                    *)

\* most registrations callers make, on the two engines together (the
\* fallback dispatch() installs and the five default builders not counted)
MaxRegistrations == 2

\* sys.maxsize, the reserved sentinel priority.  Python integers are
\* unbounded, so priorities above it exist; the value is scaled down from
\* 2^63 - 1, every priority the code itself uses (0, 100..104) stays below it.
SysMaxsize == 1000

-----------------------------------------------------------------------------
(* Python strings as character sequences.                                  *)

s_decimal == <<"d","e","c","i","m","a","l">>
s_Decimal == <<"D","e","c","i","m","a","l">>
s_numbers == <<"n","u","m","b","e","r","s">>
s_Number  == <<"N","u","m","b","e","r">>
s_app     == <<"a","p","p">>
s_MyDec   == <<"M","y","D","e","c">>
s_int     == <<"i","n","t">>
s_inspect == <<"i","n","s","p","e","c","t">>
s_empty   == <<"_","e","m","p","t","y">>
s_builtins == <<"b","u","i","l","t","i","n","s">>

\* 'decimal.Decimal', 'numbers.Number', 'app.MyDec': '<module-path>.<TypeName>'
s_decimal_Decimal == s_decimal \o <<".">> \o s_Decimal
s_numbers_Number  == s_numbers \o <<".">> \o s_Number
s_app_MyDec       == s_app \o <<".">> \o s_MyDec

\* str.find(sub) == -1
NotFound(hay, needle) ==
    ~ \E i \in 1..(Len(hay) - Len(needle) + 1) :
          SubSeq(hay, i, i + Len(needle) - 1) = needle

\* the index of the last occurrence of character c in s, 0 when there is none
LastIndex(s, c) ==
    LET hits == {i \in 1..Len(s) : s[i] = c}
    IN  IF hits = {} THEN 0 ELSE CHOOSE i \in hits : \A j \in hits : j <= i

\* the index of the first occurrence of character c in s, Len(s)+1 when none
FirstIndex(s, c) ==
    LET hits == {i \in 1..Len(s) : s[i] = c}
    IN  IF hits = {} THEN Len(s) + 1 ELSE CHOOSE i \in hits : \A j \in hits : i <= j

\* os.path.splitext(p) (posixpath): the extension starts at the last dot
\* that follows the last '/' and is preceded by a character that is no dot.
splitext(p) ==
    LET sepIndex == LastIndex(p, "/")
        dotIndex == LastIndex(p, ".")
    IN  IF dotIndex > sepIndex
           /\ \E j \in (sepIndex + 1)..(dotIndex - 1) : p[j] # "."
        THEN <<SubSeq(p, 1, dotIndex - 1), SubSeq(p, dotIndex, Len(p))>>
        ELSE <<p, <<>>>>

\* s.split('.')[0]
SplitFirst(s) == SubSeq(s, 1, FirstIndex(s, ".") - 1)

\* s.split('.')[1:] joined again: what follows the first dot
AfterFirst(s) == SubSeq(s, FirstIndex(s, ".") + 1, Len(s))

-----------------------------------------------------------------------------
(* The Python classes, modules and values the model runs the code on.      *)

Types == {"int", "Decimal", "Number", "MyDec", "_empty"}

\* type.__module__ and type.__qualname__
TypeModule(t) ==
    CASE t = "int"     -> s_builtins
      [] t = "Decimal" -> s_decimal
      [] t = "Number"  -> s_numbers
      [] t = "MyDec"   -> s_app
      [] t = "_empty"  -> s_inspect

TypeName(t) ==
    CASE t = "int"     -> s_int
      [] t = "Decimal" -> s_Decimal
      [] t = "Number"  -> s_Number
      [] t = "MyDec"   -> s_MyDec
      [] t = "_empty"  -> s_empty

\* the classes a class is a subclass of (issubclass, ABC registration
\* included): int and Decimal are numbers.Number; app.MyDec derives Decimal
Supertypes(t) ==
    CASE t = "int"     -> {"int", "Number"}
      [] t = "Decimal" -> {"Decimal", "Number"}
      [] t = "Number"  -> {"Number"}
      [] t = "MyDec"   -> {"MyDec", "Decimal", "Number"}
      [] t = "_empty"  -> {"_empty"}

\* repr(cls): "<class 'int'>" for builtins, "<class 'module.Name'>" otherwise
TypeRepr(t) ==
    <<"<","c","l","a","s","s"," ","'">>
    \o (IF TypeModule(t) = s_builtins THEN <<>> ELSE TypeModule(t) \o <<".">>)
    \o TypeName(t) \o <<"'",">">>

\* the values calls are made with: 5, Decimal('1'), app.MyDec('1')
Values == {[k |-> "obj", t |-> "int"],
           [k |-> "obj", t |-> "Decimal"],
           [k |-> "obj", t |-> "MyDec"]}

\* isinstance(x, cls)
IsInstance(x, t) == x.k = "obj" /\ t \in Supertypes(x.t)

\* sys.modules / importlib.import_module: the importable modules and the
\* classes each one holds as attributes
Importable == {s_decimal, s_numbers, s_app, s_builtins}

ModuleAttrs(m) ==
    CASE m = s_decimal  -> {"Decimal"}
      [] m = s_numbers  -> {"Number"}
      [] m = s_app      -> {"MyDec", "Decimal"}
      [] m = s_builtins -> {"int"}

\* getattr(mod, name): the class of that name in the module, if any
AttrTypes(m, name) == {t \in ModuleAttrs(m) : TypeName(t) = name}

-----------------------------------------------------------------------------
(* Python objects.                                                         *)

None == [k |-> "None"]
PyType(t) == [k |-> "type", t |-> t]
PyStr(s) == [k |-> "str", s |-> s]
PyUnion(ts) == [k |-> "generic", args |-> ts]
Lambda(name) == [k |-> "lambda", name |-> name]
Func(name) == [k |-> "func", name |-> name]
Exc(name) == [k |-> "exc", name |-> name]
\* inspect._empty, the annotation of a parameter that declares no type
Empty == PyType("_empty")

\* callable(obj)
Callable(obj) == obj.k \in {"type", "generic", "lambda", "func", "closure"}

Returned(val) == [kind |-> "return", val |-> val]
Raised(name) == [kind |-> "raise", val |-> Exc(name)]

-----------------------------------------------------------------------------
(* Resolution scopes: the _globals argument of the Check Compiler, which   *)
(* dispatch.register() fills with func.__globals__.                        *)
(*   "none"  : the argument is not given (or None)                         *)
(*   "empty" : {}                                                          *)
(*   "core"  : the globals of dispatchlib.core, where base_func is defined *)
(*   "app"   : a user module holding `from decimal import Decimal`,        *)
(*             `import numbers` and `class MyDec(Decimal)`                 *)

Module(m) == [k |-> "module", m |-> m]

\* the names a scope binds that the model's name strings can mention
ScopeNames(scope) ==
    IF scope = "app" THEN {s_Decimal, s_MyDec, s_numbers} ELSE {}

ScopeValue(scope, name) ==
    CASE name = s_Decimal -> PyType("Decimal")
      [] name = s_MyDec   -> PyType("MyDec")
      [] name = s_numbers -> Module(s_numbers)

\* the builtins eval() adds to every globals dictionary
BuiltinNames == {s_int}

\* ForwardRef(val)._evaluate(_globals, {}): eval() of a dotted name, then
\* typing's check that the value is a type
ForwardRefEvaluate(val, scope) ==
    LET first == SplitFirst(val)
        rest  == AfterFirst(val)
        head  == IF first \in ScopeNames(scope) THEN ScopeValue(scope, first)
                 ELSE PyType("int")
    IN  IF first \notin ScopeNames(scope) \cup BuiltinNames
        THEN Raised("NameError")
        ELSE IF rest = <<>>
        THEN IF head.k = "type" THEN Returned(head) ELSE Raised("TypeError")
        ELSE IF head.k = "module" /\ AttrTypes(head.m, rest) # {}
        THEN Returned(PyType(CHOOSE t \in AttrTypes(head.m, rest) : TRUE))
        ELSE Raised("AttributeError")

-----------------------------------------------------------------------------
(* Keyword arguments of a call: only the reserved `_globals` is modelled.  *)

NoKwargs == [has |-> FALSE, scope |-> "none"]
WithGlobals(scope) == [has |-> TRUE, scope |-> scope]

-----------------------------------------------------------------------------
(* Predicates: what DispatchedCallable.validate holds and how it behaves   *)
(* when called.                                                            *)

Bool(b) == [k |-> "bool", b |-> b]

\* the truth value `if f.validate(args[0]):` takes of what validate returned
Truthy(obj) == IF obj.k = "bool" THEN obj.b ELSE obj.k # "None"

\* the closures the builders of the Check Compiler return
Closure(fn, of) == [k |-> "closure", fn |-> fn, of |-> of]

\* create_checker_type.checker and create_checker_forward_ref.checker
checker_isinstance(val, x) ==
    IF val.k = "type" THEN Returned(Bool(IsInstance(x, val.t)))
    ELSE Raised("TypeError")

\* create_checker_generic_alias.checker: typeguard's check_type against a
\* Union; its TypeError becomes False
checker_generic_alias(val, x) ==
    Returned(Bool(\E t \in val.args : IsInstance(x, t)))

\* create_checker_import_via_str.checker
checker_import_via_str(val, x) ==
    LET modname     == splitext(val.s)[1]
        typename    == splitext(val.s)[2]
        packagename == SplitFirst(modname)
        attr        == SubSeq(typename, 2, Len(typename))
    IN  IF NotFound(TypeRepr(x.t), packagename)
        THEN Returned(Bool(FALSE))
        ELSE IF modname \notin Importable
        THEN Raised("ModuleNotFoundError")
        ELSE IF AttrTypes(modname, attr) = {}
        THEN Raised("AttributeError")
        ELSE Returned(Bool(IsInstance(x, CHOOSE t \in AttrTypes(modname, attr) : TRUE)))

\* the lambdas: the five guards of create_default_metadispatcher, the
\* `lambda x: True` of the fallback, and the predicates callers write
LambdaBody(name, x) ==
    CASE name = "is_type"     -> Returned(Bool(x.k = "type"))
      [] name = "is_generic"  -> Returned(Bool(x.k = "generic"))
      [] name = "is_str"      -> Returned(Bool(x.k = "str"))
      [] name = "is_callable" -> Returned(Bool(Callable(x)))
      [] name = "always"      -> Returned(Bool(TRUE))
      [] name = "never"       -> Returned(Bool(FALSE))
      [] name = "is_decimal"  -> Returned(Bool(IsInstance(x, "Decimal")))
      [] name = "is_int"      -> Returned(Bool(IsInstance(x, "int")))
      [] name = "declining"   -> Raised("NextDispatch")
      [] name = "failing"     -> Raised("ValueError")

\* f.validate(args[0]): calling whatever object the candidate holds as its
\* predicate; None and other non-callables raise TypeError
CallPredicate(p, x) ==
    CASE p.k = "closure" /\ p.fn = "isinstance" -> checker_isinstance(p.of, x)
      [] p.k = "closure" /\ p.fn = "check_type" -> checker_generic_alias(p.of, x)
      [] p.k = "closure" /\ p.fn = "import"     -> checker_import_via_str(p.of, x)
      [] p.k = "lambda"                         -> LambdaBody(p.name, x)
      [] p.k \in {"None", "str", "obj", "bool"}  -> Raised("TypeError")

-----------------------------------------------------------------------------
(* Functions: the five builders of create_default_metadispatcher, the      *)
(* base_func dispatch() synthesizes, and the implementations and builders  *)
(* callers write.  What inspect and the call site see of each:             *)

\* the annotation of the first parameter
\* (list(inspect.signature(func).parameters.values())[0].annotation)
Annotation(name) ==
    CASE name = "on_int"     -> PyType("int")
      [] name = "on_decimal" -> PyType("Decimal")
      [] name = "on_number"  -> PyStr(s_numbers_Number)
      [] name = "declines"   -> PyType("int")
      [] name = "fails"      -> PyType("int")
      [] name = "scoped"     -> PyType("int")
      [] OTHER               -> Empty

\* '_globals' in inspect.signature(f).parameters
DeclaresGlobals(name) == name \in {"create_checker_forward_ref", "scoped"}

\* the signature ends in **kwargs (base_func(checked_input, *args, **kwargs))
AcceptsKwargs(name) == name = "base_func"

\* func.__globals__
FuncGlobals(name) ==
    IF name \in {"on_int", "on_decimal", "on_number", "untyped", "declines",
                 "fails", "scoped"}
    THEN "app" ELSE "core"

\* what an implementation returns
Result(name, x) == [k |-> "result", by |-> name, arg |-> x]

\* create_checker_forward_ref(val, _globals=None)
create_checker_forward_ref(val, kwargs) ==
    LET _globals == IF kwargs.has /\ kwargs.scope # "none" THEN kwargs.scope
                    ELSE "empty"
        target   == ForwardRefEvaluate(val.s, _globals)
    IN  IF target.kind = "return" THEN Returned(Closure("isinstance", target.val))
        ELSE IF target.val = Exc("NameError") THEN Raised("NextDispatch")
        ELSE target

\* create_checker_generic_callable returning a predicate of its own
\* instead of the callable it was given
create_checker_generic_callable_other(val) == Returned(Lambda("always"))

\* create_checker_generic_callable(val): "Return the callable as-is."
create_checker_generic_callable(val) == Returned(val)

\* the body of each function, run on its first argument
FuncBody(name, x, kwargs) ==
    CASE name = "create_checker_type" -> Returned(Closure("isinstance", x))
      [] name = "create_checker_generic_alias" -> Returned(Closure("check_type", x))
      [] name = "create_checker_forward_ref" -> create_checker_forward_ref(x, kwargs)
      [] name = "create_checker_import_via_str" -> Returned(Closure("import", x))
      [] name = "create_checker_generic_callable" -> create_checker_generic_callable(x)
      [] name = "base_func"     -> Raised("TypeError")
      [] name = "on_int"        -> Returned(Result(name, x))
      [] name = "on_decimal"    -> Returned(Result(name, x))
      [] name = "on_number"     -> Returned(Result(name, x))
      [] name = "scoped"        -> Returned(Result(name, x))
      [] name = "untyped"       -> Returned(None)
      [] name = "declines"      -> Raised("NextDispatch")
      [] name = "fails"         -> Raised("ValueError")
      [] name = "build_always"  -> Returned(Lambda("always"))
      [] name = "build_none"    -> Returned(None)
      [] name = "build_decline" -> Raised("NextDispatch")

\* f(*args, **kwargs) through FunctionMixin.__call__: a keyword the function
\* neither declares nor collects is a TypeError at the call site
CallFunc(func, x, kwargs) ==
    IF kwargs.has /\ ~DeclaresGlobals(func.name) /\ ~AcceptsKwargs(func.name)
    THEN Raised("TypeError")
    ELSE FuncBody(func.name, x, kwargs)

-----------------------------------------------------------------------------
(* The registry.                                                           *)

\* DispatchedCallable(func, validate, priority); id is the object's
\* identity, the number of candidates created for this registry before it
DispatchedCallable(func, validate, priority, id) ==
    [k |-> "DispatchedCallable", func |-> func, validate |-> validate,
     priority |-> priority, id |-> id]

\* a SortedSet for the SortedKeyList: DispatchedCallable.__eq__ compares
\* priorities, so a candidate of a priority already present is not added
RegistryAdd_sorted_set(reg, c) ==
    LET pos == Cardinality({i \in 1..Len(reg) : reg[i].priority <= c.priority})
    IN  IF \E i \in 1..Len(reg) : reg[i].priority = c.priority THEN reg
        ELSE SubSeq(reg, 1, pos) \o <<c>> \o SubSeq(reg, pos + 1, Len(reg))

\* SortedKeyList.add inserting before the elements of equal key (bisect_left)
RegistryAdd_bisect_left(reg, c) ==
    LET pos == Cardinality({i \in 1..Len(reg) : reg[i].priority < c.priority})
    IN  SubSeq(reg, 1, pos) \o <<c>> \o SubSeq(reg, pos + 1, Len(reg))

\* SortedKeyList.add with key f.priority: insert after every element whose
\* key is not greater (bisect_right)
RegistryAdd(reg, c) ==
    LET pos == Cardinality({i \in 1..Len(reg) : reg[i].priority <= c.priority})
    IN  SubSeq(reg, 1, pos) \o <<c>> \o SubSeq(reg, pos + 1, Len(reg))

SetMax(S) == CHOOSE m \in S : \A n \in S : n <= m

\* an optional priority argument: <<>> is None, <<p>> is the integer p
NoPriority == <<>>

\* _determine_priority without its `if f.priority < sys.maxsize` filter
_determine_priority_unfiltered(reg, priority) ==
    IF priority # NoPriority THEN priority[1]
    ELSE LET all == {reg[i].priority : i \in 1..Len(reg)}
             max_prio == IF all = {} THEN -1 ELSE SetMax(all)
         IN  max_prio + 1

\* _determine_priority(registry, priority)
_determine_priority(reg, priority) ==
    IF priority # NoPriority THEN priority[1]
    ELSE LET below == {p \in {reg[i].priority : i \in 1..Len(reg)} :
                            p < SysMaxsize}
             max_prio == IF below = {} THEN -1 ELSE SetMax(below)
         IN  max_prio + 1

\* `if isinstance(func, DispatchedCallable): func = func.func`
Unwrap(func) == IF func.k = "DispatchedCallable" THEN func.func ELSE func

-----------------------------------------------------------------------------
(* The two dispatch loops.  A call's outcome is what its caller sees       *)
(* (kind, val) and the trace of what the loop evaluated on the way: the    *)
(* candidates whose validate was called and those whose func was invoked,  *)
(* with the keyword arguments it was given.                                *)

Validated(i) == [ev |-> "validate", i |-> i]
Invoked(i, kwargs) == [ev |-> "invoke", i |-> i, kwargs |-> kwargs]

Outcome(r, trace) == [kind |-> r.kind, val |-> r.val, trace |-> trace]

\* metadispatch.dynamic_dispatcher ending in base_func's
\* `raise TypeError('Valid implementation not found')` when the loop is
\* exhausted
RECURSIVE metadispatch_dynamic_dispatcher_raise_exhausted(_, _, _, _, _)
metadispatch_dynamic_dispatcher_raise_exhausted(reg, i, x, kwargs, trace) ==
    IF i > Len(reg) THEN Outcome(Raised("TypeError"), trace)
    ELSE
    LET f  == reg[i]
        v  == CallPredicate(f.validate, x)
        t1 == Append(trace, Validated(i))
        _kwargs == IF DeclaresGlobals(f.func.name) THEN kwargs ELSE NoKwargs
        res == CallFunc(f.func, x, _kwargs)
        t2 == Append(t1, Invoked(i, _kwargs))
    IN  IF v.kind = "raise"
        THEN IF v.val = Exc("NextDispatch")
             THEN metadispatch_dynamic_dispatcher_raise_exhausted(reg, i + 1, x, kwargs, t1)
             ELSE Outcome(v, t1)
        ELSE IF ~Truthy(v.val)
        THEN metadispatch_dynamic_dispatcher_raise_exhausted(reg, i + 1, x, kwargs, t1)
        ELSE IF res = Raised("NextDispatch")
        THEN metadispatch_dynamic_dispatcher_raise_exhausted(reg, i + 1, x, kwargs, t2)
        ELSE Outcome(res, t2)

\* metadispatch.dynamic_dispatcher with `break` for the `continue` of its
\* `except NextDispatch`: the first decline ends the loop
RECURSIVE metadispatch_dynamic_dispatcher_break_on_decline(_, _, _, _, _)
metadispatch_dynamic_dispatcher_break_on_decline(reg, i, x, kwargs, trace) ==
    IF i > Len(reg) THEN Outcome(Returned(None), trace)
    ELSE
    LET f  == reg[i]
        v  == CallPredicate(f.validate, x)
        t1 == Append(trace, Validated(i))
        _kwargs == IF DeclaresGlobals(f.func.name) THEN kwargs ELSE NoKwargs
        res == CallFunc(f.func, x, _kwargs)
        t2 == Append(t1, Invoked(i, _kwargs))
    IN  IF v.kind = "raise"
        THEN IF v.val = Exc("NextDispatch")
             THEN Outcome(Returned(None), t1)
             ELSE Outcome(v, t1)
        ELSE IF ~Truthy(v.val)
        THEN metadispatch_dynamic_dispatcher_break_on_decline(reg, i + 1, x, kwargs, t1)
        ELSE IF res = Raised("NextDispatch")
        THEN Outcome(Returned(None), t2)
        ELSE Outcome(res, t2)

\* metadispatch.dynamic_dispatcher without its `_kwargs.pop('_globals', None)`:
\* every implementation is handed the keyword arguments as they came
RECURSIVE metadispatch_dynamic_dispatcher_no_pop(_, _, _, _, _)
metadispatch_dynamic_dispatcher_no_pop(reg, i, x, kwargs, trace) ==
    IF i > Len(reg) THEN Outcome(Returned(None), trace)
    ELSE
    LET f  == reg[i]
        v  == CallPredicate(f.validate, x)
        t1 == Append(trace, Validated(i))
        _kwargs == kwargs
        res == CallFunc(f.func, x, _kwargs)
        t2 == Append(t1, Invoked(i, _kwargs))
    IN  IF v.kind = "raise"
        THEN IF v.val = Exc("NextDispatch")
             THEN metadispatch_dynamic_dispatcher_no_pop(reg, i + 1, x, kwargs, t1)
             ELSE Outcome(v, t1)
        ELSE IF ~Truthy(v.val)
        THEN metadispatch_dynamic_dispatcher_no_pop(reg, i + 1, x, kwargs, t1)
        ELSE IF res = Raised("NextDispatch")
        THEN metadispatch_dynamic_dispatcher_no_pop(reg, i + 1, x, kwargs, t2)
        ELSE Outcome(res, t2)

\* metadispatch.dynamic_dispatcher with `continue` where `return res`
\* belongs: a match does not end the loop and its result is dropped
RECURSIVE metadispatch_dynamic_dispatcher_no_return(_, _, _, _, _)
metadispatch_dynamic_dispatcher_no_return(reg, i, x, kwargs, trace) ==
    IF i > Len(reg) THEN Outcome(Returned(None), trace)
    ELSE
    LET f  == reg[i]
        v  == CallPredicate(f.validate, x)
        t1 == Append(trace, Validated(i))
        _kwargs == IF DeclaresGlobals(f.func.name) THEN kwargs ELSE NoKwargs
        res == CallFunc(f.func, x, _kwargs)
        t2 == Append(t1, Invoked(i, _kwargs))
    IN  IF v.kind = "raise"
        THEN IF v.val = Exc("NextDispatch")
             THEN metadispatch_dynamic_dispatcher_no_return(reg, i + 1, x, kwargs, t1)
             ELSE Outcome(v, t1)
        ELSE IF ~Truthy(v.val)
        THEN metadispatch_dynamic_dispatcher_no_return(reg, i + 1, x, kwargs, t1)
        ELSE IF res.kind = "raise" /\ res # Raised("NextDispatch")
        THEN Outcome(res, t2)
        ELSE metadispatch_dynamic_dispatcher_no_return(reg, i + 1, x, kwargs, t2)

\* metadispatch.dynamic_dispatcher: `for f in registry` from candidate i on
RECURSIVE metadispatch_dynamic_dispatcher(_, _, _, _, _)
metadispatch_dynamic_dispatcher(reg, i, x, kwargs, trace) ==
    IF i > Len(reg) THEN Outcome(Returned(None), trace)
    ELSE
    LET f  == reg[i]
        v  == CallPredicate(f.validate, x)
        t1 == Append(trace, Validated(i))
        _kwargs == IF DeclaresGlobals(f.func.name) THEN kwargs ELSE NoKwargs
        res == CallFunc(f.func, x, _kwargs)
        t2 == Append(t1, Invoked(i, _kwargs))
    IN  IF v.kind = "raise"
        THEN IF v.val = Exc("NextDispatch")
             THEN metadispatch_dynamic_dispatcher(reg, i + 1, x, kwargs, t1)
             ELSE Outcome(v, t1)
        ELSE IF ~Truthy(v.val)
        THEN metadispatch_dynamic_dispatcher(reg, i + 1, x, kwargs, t1)
        ELSE IF res = Raised("NextDispatch")
        THEN metadispatch_dynamic_dispatcher(reg, i + 1, x, kwargs, t2)
        ELSE Outcome(res, t2)

\* dispatch.dynamic_dispatcher giving a candidate that declined a second
\* try before it moves on
RECURSIVE dispatch_dynamic_dispatcher_retry_declined(_, _, _, _, _)
dispatch_dynamic_dispatcher_retry_declined(reg, i, x, kwargs, trace) ==
    IF i > Len(reg) THEN Outcome(Returned(None), trace)
    ELSE
    LET f  == reg[i]
        v  == CallPredicate(f.validate, x)
        t1 == Append(trace, Validated(i))
        res == CallFunc(f.func, x, kwargs)
        t2 == Append(t1, Invoked(i, kwargs))
        t3 == Append(t2, Invoked(i, kwargs))
    IN  IF v.kind = "raise"
        THEN IF v.val = Exc("NextDispatch")
             THEN dispatch_dynamic_dispatcher_retry_declined(reg, i + 1, x, kwargs, t1)
             ELSE Outcome(v, t1)
        ELSE IF ~Truthy(v.val)
        THEN dispatch_dynamic_dispatcher_retry_declined(reg, i + 1, x, kwargs, t1)
        ELSE IF res = Raised("NextDispatch")
        THEN dispatch_dynamic_dispatcher_retry_declined(reg, i + 1, x, kwargs, t3)
        ELSE Outcome(res, t2)

\* dispatch.dynamic_dispatcher without its `except NextDispatch`: the
\* signal of a declining candidate reaches the caller
RECURSIVE dispatch_dynamic_dispatcher_no_except(_, _, _, _, _)
dispatch_dynamic_dispatcher_no_except(reg, i, x, kwargs, trace) ==
    IF i > Len(reg) THEN Outcome(Returned(None), trace)
    ELSE
    LET f  == reg[i]
        v  == CallPredicate(f.validate, x)
        t1 == Append(trace, Validated(i))
        res == CallFunc(f.func, x, kwargs)
        t2 == Append(t1, Invoked(i, kwargs))
    IN  IF v.kind = "raise" THEN Outcome(v, t1)
        ELSE IF ~Truthy(v.val)
        THEN dispatch_dynamic_dispatcher_no_except(reg, i + 1, x, kwargs, t1)
        ELSE Outcome(res, t2)

\* dispatch.dynamic_dispatcher with `except Exception`: every failure of a
\* candidate is taken for a decline
RECURSIVE dispatch_dynamic_dispatcher_except_all(_, _, _, _, _)
dispatch_dynamic_dispatcher_except_all(reg, i, x, kwargs, trace) ==
    IF i > Len(reg) THEN Outcome(Returned(None), trace)
    ELSE
    LET f  == reg[i]
        v  == CallPredicate(f.validate, x)
        t1 == Append(trace, Validated(i))
        res == CallFunc(f.func, x, kwargs)
        t2 == Append(t1, Invoked(i, kwargs))
    IN  IF v.kind = "raise" \/ ~Truthy(v.val)
        THEN dispatch_dynamic_dispatcher_except_all(reg, i + 1, x, kwargs, t1)
        ELSE IF res.kind = "raise"
        THEN dispatch_dynamic_dispatcher_except_all(reg, i + 1, x, kwargs, t2)
        ELSE Outcome(res, t2)

\* dispatch.dynamic_dispatcher with `except (NextDispatch, TypeError)`: a
\* TypeError of a candidate is taken for a decline
RECURSIVE dispatch_dynamic_dispatcher_except_typeerror(_, _, _, _, _)
dispatch_dynamic_dispatcher_except_typeerror(reg, i, x, kwargs, trace) ==
    IF i > Len(reg) THEN Outcome(Returned(None), trace)
    ELSE
    LET f  == reg[i]
        v  == CallPredicate(f.validate, x)
        t1 == Append(trace, Validated(i))
        res == CallFunc(f.func, x, kwargs)
        t2 == Append(t1, Invoked(i, kwargs))
        declined(r) == r \in {Raised("NextDispatch"), Raised("TypeError")}
    IN  IF v.kind = "raise"
        THEN IF declined(v)
             THEN dispatch_dynamic_dispatcher_except_typeerror(reg, i + 1, x, kwargs, t1)
             ELSE Outcome(v, t1)
        ELSE IF ~Truthy(v.val)
        THEN dispatch_dynamic_dispatcher_except_typeerror(reg, i + 1, x, kwargs, t1)
        ELSE IF declined(res)
        THEN dispatch_dynamic_dispatcher_except_typeerror(reg, i + 1, x, kwargs, t2)
        ELSE Outcome(res, t2)

\* dispatch.dynamic_dispatcher: the same loop, the keyword arguments
\* forwarded as they came
RECURSIVE dispatch_dynamic_dispatcher(_, _, _, _, _)
dispatch_dynamic_dispatcher(reg, i, x, kwargs, trace) ==
    IF i > Len(reg) THEN Outcome(Returned(None), trace)
    ELSE
    LET f  == reg[i]
        v  == CallPredicate(f.validate, x)
        t1 == Append(trace, Validated(i))
        res == CallFunc(f.func, x, kwargs)
        t2 == Append(t1, Invoked(i, kwargs))
    IN  IF v.kind = "raise"
        THEN IF v.val = Exc("NextDispatch")
             THEN dispatch_dynamic_dispatcher(reg, i + 1, x, kwargs, t1)
             ELSE Outcome(v, t1)
        ELSE IF ~Truthy(v.val)
        THEN dispatch_dynamic_dispatcher(reg, i + 1, x, kwargs, t1)
        ELSE IF res = Raised("NextDispatch")
        THEN dispatch_dynamic_dispatcher(reg, i + 1, x, kwargs, t2)
        ELSE Outcome(res, t2)

-----------------------------------------------------------------------------
(* Registration.                                                           *)

\* metadispatch.register(check_func, priority)(func): the registry after it
metadispatch_register(reg, check_func, priority, func) ==
    RegistryAdd(reg, DispatchedCallable(Unwrap(func), check_func,
                                        _determine_priority(reg, priority),
                                        Len(reg) + 1))

\* create_default_metadispatcher() with the priorities of its two string
\* builders exchanged: import-path at 102, forward-reference at 103
create_default_metadispatcher_swapped ==
    LET r1 == metadispatch_register(<<>>, Lambda("is_type"), <<100>>,
                                    Func("create_checker_type"))
        r2 == metadispatch_register(r1, Lambda("is_generic"), <<101>>,
                                    Func("create_checker_generic_alias"))
        r3 == metadispatch_register(r2, Lambda("is_str"), <<103>>,
                                    Func("create_checker_forward_ref"))
        r4 == metadispatch_register(r3, Lambda("is_str"), <<102>>,
                                    Func("create_checker_import_via_str"))
    IN  metadispatch_register(r4, Lambda("is_callable"), <<104>>,
                              Func("create_checker_generic_callable"))

\* create_default_metadispatcher(): the five builders, registered in order
create_default_metadispatcher ==
    LET r1 == metadispatch_register(<<>>, Lambda("is_type"), <<100>>,
                                    Func("create_checker_type"))
        r2 == metadispatch_register(r1, Lambda("is_generic"), <<101>>,
                                    Func("create_checker_generic_alias"))
        r3 == metadispatch_register(r2, Lambda("is_str"), <<102>>,
                                    Func("create_checker_forward_ref"))
        r4 == metadispatch_register(r3, Lambda("is_str"), <<103>>,
                                    Func("create_checker_import_via_str"))
    IN  metadispatch_register(r4, Lambda("is_callable"), <<104>>,
                              Func("create_checker_generic_callable"))

\* dispatch.register(check, priority)._wrap(func), run with the closure's
\* `check` cell holding `check`: what it raises or the candidate it adds,
\* the value it leaves in the cell, and the specification it compiled
dispatch_register_wrap(reg, mreg, check, priority, func) ==
    LET fn       == Unwrap(func)
        inferred == IF check = None THEN Annotation(fn.name) ELSE check
        compiled == metadispatch_dynamic_dispatcher(
                        mreg, 1, inferred, WithGlobals(FuncGlobals(fn.name)), <<>>)
        new_func == DispatchedCallable(fn, compiled.val,
                                       _determine_priority(reg, priority),
                                       Len(reg) + 1)
    IN  IF check = None /\ inferred = Empty
        THEN [kind |-> "raise", val |-> Exc("TypeError"), check |-> inferred,
              compiled |-> None, registry |-> reg]
        ELSE IF compiled.kind = "raise"
        THEN [kind |-> "raise", val |-> compiled.val, check |-> inferred,
              compiled |-> inferred, registry |-> reg]
        ELSE [kind |-> "return", val |-> fn, check |-> inferred,
              compiled |-> inferred, registry |-> RegistryAdd(reg, new_func)]

-----------------------------------------------------------------------------
(* The state machine.                                                      *)

\* the builders create_default_metadispatcher() seeds a Check Compiler with
DefaultBuilders == {create_default_metadispatcher[i].func :
                        i \in 1..Len(create_default_metadispatcher)}

\* the registrations callers have made so far, on both engines
Registrations ==
    (Len(registry) - (IF built THEN 1 ELSE 0))
    + Cardinality({i \in 1..Len(mregistry) : mregistry[i].func \notin DefaultBuilders})

\* after `import dispatchlib`: the default Check Compiler exists, no engine
\* has been built yet
Init ==
    /\ built = FALSE
    /\ registry = <<>>
    /\ mregistry = create_default_metadispatcher
    /\ decorator = None
    /\ last = [op |-> "import"]

\* a fallback registered behind `lambda x: False`
fallback_check_never == Lambda("never")

\* the `lambda x: True` dispatch() registers base_func behind
fallback_check == Lambda("always")

\* dispatch(*func) with the default metadispatcher.  No argument: a
\* decorator comes back and nothing is built yet.  More than one: TypeError.
\* One: the engine, with base_func (func[0], or the synthesized one when it
\* is None) registered behind `lambda x: True` at priority sys.maxsize.
Dispatch(func) ==
    /\ ~built
    /\ LET base_func == IF func[1] = None THEN Func("base_func") ELSE func[1]
           w == dispatch_register_wrap(<<>>, mregistry, fallback_check,
                                       <<SysMaxsize>>, base_func)
       IN  IF Len(func) = 0
           THEN /\ last' = [op |-> "dispatch", kind |-> "return", val |-> None]
                /\ UNCHANGED <<built, registry>>
           ELSE IF Len(func) > 1
           THEN /\ last' = [op |-> "dispatch", kind |-> "raise",
                            val |-> Exc("TypeError")]
                /\ UNCHANGED <<built, registry>>
           ELSE /\ built' = (w.kind = "return")
                /\ registry' = w.registry
                /\ last' = [op |-> "dispatch", kind |-> w.kind, val |-> w.val]
    /\ UNCHANGED <<mregistry, decorator>>

\* dynamic_dispatcher.register(check, priority): returns the closure _wrap.
\* `omitted` remembers whether the call gave no check; the cell `check` is
\* what _wrap reads and, through `nonlocal check`, writes.
Register(check, priority) ==
    /\ built
    /\ decorator' = [k |-> "decorator", check |-> check, priority |-> priority,
                     omitted |-> (check = None)]
    /\ last' = [op |-> "register"]
    /\ UNCHANGED <<built, registry, mregistry>>

\* _wrap(func): the decorator applied to an implementation
Wrap(func) ==
    /\ built
    /\ decorator # None
    /\ Registrations < MaxRegistrations
    /\ LET w == dispatch_register_wrap(registry, mregistry, decorator.check,
                                       decorator.priority, func)
       IN  /\ registry' = w.registry
           /\ decorator' = [decorator EXCEPT !.check = w.check]
           /\ last' = [op |-> "wrap", kind |-> w.kind, val |-> w.val,
                       func |-> func, omitted |-> decorator.omitted,
                       priority |-> decorator.priority,
                       compiled |-> w.compiled]
    /\ UNCHANGED <<built, mregistry>>

\* dynamic_dispatcher(x, **kwargs) of the factory engine
Call(x, kwargs) ==
    /\ built
    /\ LET r == dispatch_dynamic_dispatcher(registry, 1, x, kwargs, <<>>)
       IN  last' = [op |-> "call", x |-> x, kwargs |-> kwargs, kind |-> r.kind,
                    val |-> r.val, trace |-> r.trace]
    /\ UNCHANGED <<built, registry, mregistry, decorator>>

\* _default_metadispatcher.register(check_func, priority)(func)
MRegister(check_func, priority, func) ==
    /\ Registrations < MaxRegistrations
    /\ mregistry' = metadispatch_register(mregistry, check_func, priority, func)
    /\ last' = [op |-> "mregister", kind |-> "return", val |-> Unwrap(func),
                func |-> func, priority |-> priority]
    /\ UNCHANGED <<built, registry, decorator>>

\* _default_metadispatcher(x, **kwargs): compiling a check specification
MCall(x, kwargs) ==
    /\ LET r == metadispatch_dynamic_dispatcher(mregistry, 1, x, kwargs, <<>>)
       IN  last' = [op |-> "mcall", x |-> x, kwargs |-> kwargs, kind |-> r.kind,
                    val |-> r.val, trace |-> r.trace]
    /\ UNCHANGED <<built, registry, mregistry, decorator>>

\* pred(x): the caller applies the predicate the Check Compiler returned
Check(x) ==
    /\ last.op = "mcall"
    /\ last.kind = "return"
    /\ LET r == CallPredicate(last.val, x)
       IN  last' = [op |-> "check", spec |-> last.x, kwargs |-> last.kwargs,
                    pred |-> last.val, x |-> x, kind |-> r.kind, val |-> r.val]
    /\ UNCHANGED <<built, registry, mregistry, decorator>>

-----------------------------------------------------------------------------
(* Spec: both engines, driven with predicates and implementations of every *)
(* behaviour (true, false, declining, failing; returning, returning None,  *)
(* declining, failing).                                                    *)

CallBases == {<<None>>, <<>>, <<None, None>>}
\* register(check, priority) calls: <<check, priority>>
CallDecorators == {<<Lambda("always"), NoPriority>>,
                   <<Lambda("is_decimal"), NoPriority>>,
                   <<Lambda("declining"), NoPriority>>,
                   <<Lambda("failing"), NoPriority>>,
                   <<Lambda("always"), <<0>>>>}
CallFuncs == {Func("on_int"), Func("declines"), Func("fails")}
CallValues == {[k |-> "obj", t |-> "int"], [k |-> "obj", t |-> "Decimal"]}
\* builders callers add: <<check_func, priority, func>>
CallBuilders == {<<Lambda("is_str"), <<0>>, Func("build_decline")>>,
                 <<Lambda("declining"), <<0>>, Func("build_always")>>,
                 <<Lambda("failing"), <<101>>, Func("build_always")>>,
                 <<Lambda("is_callable"), <<0>>, Func("build_none")>>}
CallSpecs == {PyType("int"), PyStr(s_decimal_Decimal), Lambda("never"),
              [k |-> "obj", t |-> "int"]}

Next ==
    \/ \E func \in CallBases : Dispatch(func)
    \/ \E d \in CallDecorators : Register(d[1], d[2])
    \/ \E func \in CallFuncs : Wrap(func)
    \/ \E x \in CallValues : Call(x, NoKwargs)
    \/ \E b \in CallBuilders : MRegister(b[1], b[2], b[3])
    \/ \E x \in CallSpecs : MCall(x, WithGlobals("empty"))

Spec == Init /\ [][Next]_vars

-----------------------------------------------------------------------------
(* What the claims about call speak of, read off the registry the call ran *)
(* on and the outcome it left in `last`.                                   *)

\* the last operation was a call, on either engine
Called == last.op \in {"call", "mcall"}

\* the registry that call iterated
CalledRegistry == IF last.op = "call" THEN registry ELSE mregistry

\* what candidate c's predicate does on the call's value
PredicateOutcome(c) == CallPredicate(c.validate, last.x)

PredicateTrue(c) ==
    PredicateOutcome(c).kind = "return" /\ Truthy(PredicateOutcome(c).val)

\* what candidate c's implementation does when invoked by this call (the
\* strict engine hands `_globals` only to an implementation declaring it)
ImplementationOutcome(c) ==
    CallFunc(c.func, last.x,
             IF last.op = "mcall" /\ ~DeclaresGlobals(c.func.name)
             THEN NoKwargs ELSE last.kwargs)

IsSignal(r) == r = Raised("NextDispatch")
IsFailure(r) == r.kind = "raise" /\ ~IsSignal(r)

\* the candidates whose predicate the call evaluated, whose implementation
\* it invoked
EvaluatedPredicates ==
    {last.trace[n].i : n \in {m \in 1..Len(last.trace) : last.trace[m].ev = "validate"}}
InvokedImplementations ==
    {last.trace[n].i : n \in {m \in 1..Len(last.trace) : last.trace[m].ev = "invoke"}}
Evaluated == EvaluatedPredicates \cup InvokedImplementations

\* candidate i takes the call: its predicate is true on the value and its
\* implementation does not raise the Continuation Signal
Takes(i) ==
    /\ PredicateTrue(CalledRegistry[i])
    /\ ~IsSignal(ImplementationOutcome(CalledRegistry[i]))

\* C2: call returns the result of the first candidate, in registry order,
\* whose predicate is true on the value and whose implementation does not
\* raise the Continuation Signal (None counts as a result), and evaluates no
\* candidate after it; a predicate failing before that candidate is the
\* one thing that keeps the call from reaching it.
C2_FirstTakerDecides ==
    Called =>
        \A i \in 1..Len(CalledRegistry) :
            (/\ Takes(i)
             /\ \A j \in 1..(i - 1) :
                    /\ ~Takes(j)
                    /\ ~IsFailure(PredicateOutcome(CalledRegistry[j])))
            => /\ [kind |-> last.kind, val |-> last.val]
                      = ImplementationOutcome(CalledRegistry[i])
               /\ \A j \in Evaluated : j <= i

\* a call returned a candidate's value after passing over an earlier
\* candidate, with a later candidate left unevaluated
C2_Witness ==
    /\ last.op = "call"
    /\ last.kind = "return"
    /\ last.val # None
    /\ \E i \in 2..(Len(registry) - 1) : Takes(i) /\ \A j \in 1..(i - 1) : ~Takes(j)

\* C3: a candidate whose predicate is true and whose implementation raises
\* NextDispatch is passed over: the next candidate is evaluated, the result
\* is not the declined candidate's, and NextDispatch never reaches the
\* caller of call.
C3_DeclineContinues ==
    Called =>
        /\ ~IsSignal([kind |-> last.kind, val |-> last.val])
        /\ \A i \in InvokedImplementations :
               IsSignal(ImplementationOutcome(CalledRegistry[i])) =>
                   /\ i < Len(CalledRegistry) => (i + 1) \in EvaluatedPredicates
                   /\ i = Len(CalledRegistry) => (last.kind = "return" /\ last.val = None)
                   /\ i < Len(CalledRegistry) => last.trace[Len(last.trace)].i > i

\* a matched candidate declined and a later candidate's value was returned
C3_Witness ==
    /\ last.op = "call"
    /\ last.kind = "return"
    /\ last.val # None
    /\ \E i \in InvokedImplementations :
           IsSignal(ImplementationOutcome(registry[i]))

\* C7: a failure other than NextDispatch, raised by a candidate's predicate
\* or by a matched candidate's implementation, is the outcome of call, and
\* no candidate after that one is evaluated.
C7_FailurePropagates ==
    Called =>
        \A i \in Evaluated :
            LET c == CalledRegistry[i]
                failure == IF IsFailure(PredicateOutcome(c)) THEN PredicateOutcome(c)
                           ELSE ImplementationOutcome(c)
            IN  (\/ IsFailure(PredicateOutcome(c))
                 \/ PredicateTrue(c) /\ IsFailure(ImplementationOutcome(c)))
                => /\ [kind |-> last.kind, val |-> last.val] = failure
                   /\ \A j \in Evaluated : j <= i

\* a call ended with a candidate's failure while later candidates, the
\* fallback among them, were never evaluated
C7_Witness ==
    /\ last.op = "call"
    /\ last.kind = "raise"
    /\ last.val = Exc("ValueError")
    /\ Len(registry) \notin Evaluated
    /\ Len(registry) > 1

-----------------------------------------------------------------------------
(* SpecRegister: both engines, driven with registrations of every kind of  *)
(* priority (defaulted, colliding, next to, at and above sys.maxsize) and  *)
(* with decorators that omit `check` and are applied again.                *)

RegisterBases == {<<None>>}
\* register(check, priority) calls: <<check, priority>>
RegisterDecorators == {<<None, NoPriority>>,
                       <<PyType("int"), NoPriority>>,
                       <<Lambda("always"), <<0>>>>,
                       <<Lambda("always"), <<SysMaxsize - 1>>>>,
                       <<Lambda("always"), <<SysMaxsize>>>>,
                       <<Lambda("always"), <<SysMaxsize + 1>>>>}
RegisterFuncs == {Func("on_int"), Func("on_decimal"), Func("untyped")}
\* builders callers add: <<check_func, priority, func>>
RegisterBuilders == {<<Lambda("is_str"), NoPriority, Func("build_always")>>,
                     <<Lambda("is_str"), <<102>>, Func("build_decline")>>,
                     <<Lambda("is_int"), <<SysMaxsize>>, Func("build_always")>>}

\* the fallback's DispatchedCallable, as engine.registry shows it
Fallbacks == {registry[i] : i \in {j \in 1..Len(registry) : registry[j].id = 1}}

NextRegister ==
    \/ \E func \in RegisterBases : Dispatch(func)
    \/ \E d \in RegisterDecorators : Register(d[1], d[2])
    \/ \E func \in RegisterFuncs \cup Fallbacks : Wrap(func)
    \/ Call([k |-> "obj", t |-> "int"], NoKwargs)
    \/ \E b \in RegisterBuilders : MRegister(b[1], b[2], b[3])
    \/ MCall(PyStr(s_decimal_Decimal), WithGlobals("app"))

SpecRegister == Init /\ [][NextRegister]_vars

\* the last operation registered a candidate, on either engine
Registered == last.op \in {"wrap", "mregister"} /\ last.kind = "return"

\* the registry it registered into, the candidate it added (the newest
\* object of the registry) and the registry as it was before
RegisteredInto == IF last.op = "wrap" THEN registry ELSE mregistry
Added == CHOOSE c \in {RegisteredInto[i] : i \in 1..Len(RegisteredInto)} :
             c.id = Len(RegisteredInto)
Before == SelectSeq(RegisteredInto, LAMBDA c : c.id # Len(RegisteredInto))

\* the candidates of a registry come in non-decreasing priority, those of
\* equal priority in the order they were registered
Ordered(reg) ==
    \A i, j \in 1..Len(reg) :
        i < j => /\ reg[i].priority <= reg[j].priority
                 /\ reg[i].priority = reg[j].priority => reg[i].id < reg[j].id

\* C1: after any sequence of registrations, on the strict engine and on the
\* factory-built engine, iterating the registry yields non-decreasing
\* priorities, and candidates of equal priority in registration order.
C1_RegistryOrdered == Ordered(registry) /\ Ordered(mregistry)

\* a registration just made left a factory registry of three candidates,
\* two of them of equal priority
C1_Witness ==
    /\ last.op = "wrap"
    /\ Len(registry) = 3
    /\ \E i, j \in 1..Len(registry) :
           i < j /\ registry[i].priority = registry[j].priority

\* the fallback of the factory-built engine: the first candidate created
FallbackIsLast(reg) == reg[Len(reg)].id = 1

\* C4: in a factory-built engine a registration without an explicit
\* priority never pushes the sentinel-priority fallback out of last place.
C4_FallbackStaysLast ==
    (/\ last.op = "wrap"
     /\ last.kind = "return"
     /\ last.priority = NoPriority
     /\ FallbackIsLast(Before))
    => FallbackIsLast(registry)

\* the priorities of a registry's candidates
Priorities(reg) == {reg[i].priority : i \in 1..Len(reg)}

\* what the rule gives a registration without explicit priority when the
\* maximum is taken over the priorities in S
NextAfter(S) == IF S = {} THEN 0 ELSE SetMax(S) + 1

\* C6 as stated: a registration without explicit priority receives m + 1,
\* m the maximum priority among the candidates whose priority is not the
\* sentinel (0 when there is none); an explicit priority is kept verbatim.
C6_PriorityNotSentinel ==
    Registered =>
        Added.priority =
            IF last.priority # NoPriority THEN last.priority[1]
            ELSE NextAfter({p \in Priorities(Before) : p # SysMaxsize})

\* C6 as amended: m is the maximum among the candidates whose priority is
\* below the sentinel.
C6_PriorityBelowSentinel ==
    Registered =>
        Added.priority =
            IF last.priority # NoPriority THEN last.priority[1]
            ELSE NextAfter({p \in Priorities(Before) : p < SysMaxsize})

\* a registration without explicit priority into a factory registry that
\* holds the fallback and a candidate below the sentinel
C6_Witness ==
    /\ last.op = "wrap"
    /\ last.kind = "return"
    /\ last.priority = NoPriority
    /\ Len(Before) = 2
    /\ Added.priority = 1

\* the implementation the last _wrap was applied to
Wrapped == Unwrap(last.func)

\* C8: registering, without a check, an implementation whose first
\* parameter declares no type raises the configuration error (TypeError).
C8_MissingCheckRaises ==
    (/\ last.op = "wrap"
     /\ last.omitted
     /\ Annotation(Wrapped.name) = Empty)
    => /\ last.kind = "raise"
       /\ last.val = Exc("TypeError")

\* C9: whenever the registration omitted `check`, the check specification
\* compiled for an implementation is the declared type of that
\* implementation's own first parameter.
C9_CompilesOwnAnnotation ==
    (/\ last.op = "wrap"
     /\ last.omitted
     /\ last.kind = "return")
    => last.compiled = Annotation(Wrapped.name)

-----------------------------------------------------------------------------
(* SpecFallback: engines built from fallbacks of every behaviour (the      *)
(* synthesized base_func, one returning a value, one returning None, one   *)
(* raising NextDispatch, one raising ValueError), called with and without  *)
(* the `_globals` keyword.                                                 *)

FallbackBases == {<<None>>, <<Func("on_int")>>, <<Func("untyped")>>,
                  <<Func("declines")>>, <<Func("fails")>>}

NextFallback ==
    \/ \E func \in FallbackBases : Dispatch(func)
    \/ Register(Lambda("is_decimal"), NoPriority)
    \/ Wrap(Func("on_decimal"))
    \/ \E x \in Values, kwargs \in {NoKwargs, WithGlobals("app")} : Call(x, kwargs)
    \/ MRegister(Lambda("is_callable"), <<0>>, Func("build_none"))
    \/ MCall(Lambda("always"), WithGlobals("core"))

SpecFallback == Init /\ [][NextFallback]_vars

\* the engine holds only its fallback, behind the `lambda x: True` it was
\* registered with, and was just called
FallbackOnlyCalled ==
    /\ last.op = "call"
    /\ Len(registry) = 1
    /\ registry[1].validate = Lambda("always")

\* what the fallback does on the arguments of the call
FallbackOutcome == CallFunc(registry[1].func, last.x, last.kwargs)

\* C5 as stated: an engine built with only a fallback always invokes the
\* fallback, and the call's outcome is exactly the fallback's: what it
\* returns is returned, whatever it raises is propagated.
C5_FallbackOutcomeExactly ==
    FallbackOnlyCalled =>
        /\ last.trace = <<Validated(1), Invoked(1, last.kwargs)>>
        /\ [kind |-> last.kind, val |-> last.val] = FallbackOutcome

\* C5 as amended: what the fallback returns is returned and what it raises
\* is propagated, except NextDispatch: a fallback raising it is passed over
\* and the call yields None.
C5_FallbackOutcomeButSignal ==
    FallbackOnlyCalled =>
        /\ last.trace = <<Validated(1), Invoked(1, last.kwargs)>>
        /\ [kind |-> last.kind, val |-> last.val] =
               IF IsSignal(FallbackOutcome) THEN Returned(None) ELSE FallbackOutcome

\* the synthesized base_func was the only candidate and its TypeError
\* reached the caller
C5_Witness ==
    /\ FallbackOnlyCalled
    /\ registry[1].func = Func("base_func")
    /\ last.kind = "raise"
    /\ last.val = Exc("TypeError")

-----------------------------------------------------------------------------
(* SpecCompile: the Check Compiler, given every kind of check              *)
(* specification under every scope, and the predicates it returns applied  *)
(* to every value.                                                         *)

CompileSpecs == {PyStr(s_decimal_Decimal), PyStr(s_numbers_Number),
                 PyStr(s_app_MyDec), PyStr(s_Decimal), PyStr(s_int),
                 PyType("Decimal"), PyUnion({"int", "MyDec"}),
                 Lambda("is_decimal"), [k |-> "obj", t |-> "int"]}
CompileScopes == {NoKwargs, WithGlobals("empty"), WithGlobals("app")}
\* builders callers add: <<check_func, priority, func>>
CompileBuilders == {<<Lambda("is_str"), <<0>>, Func("build_decline")>>,
                    <<Lambda("is_int"), NoPriority, Func("build_always")>>,
                    <<Lambda("is_int"), <<0>>, Func("build_decline")>>,
                    <<Lambda("is_callable"), <<0>>, Func("build_none")>>}

NextCompile ==
    \/ \E b \in CompileBuilders : MRegister(b[1], b[2], b[3])
    \/ \E x \in CompileSpecs, kwargs \in CompileScopes : MCall(x, kwargs)
    \/ \E x \in Values : Check(x)

SpecCompile == Init /\ [][NextCompile]_vars

\* '<module-path>.<TypeName>' of a class
QualifiedName(t) == TypeModule(t) \o <<".">> \o TypeName(t)

\* the scope a compilation ran under (`_globals or {}`)
CompiledUnder(kwargs) ==
    IF kwargs.has /\ kwargs.scope # "none" THEN kwargs.scope ELSE "empty"

\* the default Check Compiler compiled the qualified name of class t, which
\* the forward-reference builder could not resolve in the scope, and the
\* predicate it returned was applied to a value
ImportPredicateApplied(t) ==
    /\ last.op = "check"
    /\ mregistry = create_default_metadispatcher
    /\ last.spec = PyStr(QualifiedName(t))
    /\ ForwardRefEvaluate(last.spec.s, CompiledUnder(last.kwargs)) = Raised("NameError")

\* C10: the predicate compiled from a '<module-path>.<TypeName>' string the
\* forward-reference builder cannot resolve is an instance-of test for the
\* named type: true exactly on instances of the type and of its subtypes.
C10_ImportPredicateIsInstanceOf ==
    \A t \in Types :
        ImportPredicateApplied(t) =>
            [kind |-> last.kind, val |-> last.val]
                = Returned(Bool(IsInstance(last.x, t)))

-----------------------------------------------------------------------------
(* SpecStrict: a strict engine a caller builds with metadispatch() and     *)
(* fills with candidates of every behaviour.  It has no fallback: its      *)
(* registry starts empty.                                                  *)

\* after `f = metadispatch()`: `registry = SortedKeyList(...)`, empty
InitStrict ==
    /\ built = FALSE
    /\ registry = <<>>
    /\ mregistry = <<>>
    /\ decorator = None
    /\ last = [op |-> "metadispatch"]

\* f.register(check_func, priority)(func) calls: <<check_func, priority, func>>
StrictBuilders == {<<Lambda("never"), NoPriority, Func("on_int")>>,
                   <<Lambda("declining"), NoPriority, Func("on_int")>>,
                   <<Lambda("always"), NoPriority, Func("declines")>>,
                   <<Lambda("is_int"), NoPriority, Func("on_int")>>,
                   <<Lambda("always"), <<0>>, Func("untyped")>>,
                   <<Lambda("is_decimal"), <<0>>, Func("fails")>>}

NextStrict ==
    \/ \E b \in StrictBuilders : MRegister(b[1], b[2], b[3])
    \/ \E x \in Values, kwargs \in {NoKwargs, WithGlobals("app")} : MCall(x, kwargs)

SpecStrict == InitStrict /\ [][NextStrict]_vars

\* candidate c does not apply to the value of the call: its predicate is
\* false or raises the Continuation Signal, or its predicate is true and its
\* implementation raises the Continuation Signal
PassedOver(c) ==
    \/ PredicateOutcome(c).kind = "return" /\ ~Truthy(PredicateOutcome(c).val)
    \/ IsSignal(PredicateOutcome(c))
    \/ PredicateTrue(c) /\ IsSignal(ImplementationOutcome(c))

\* C11: a call of an engine without fallback (a strict engine) returns None,
\* and raises nothing, when its registry is empty and when every candidate
\* is passed over: its predicate was false or it declined with NextDispatch.
C11_ExhaustedIsAbsent ==
    (/\ last.op = "mcall"
     /\ \A i \in 1..Len(mregistry) : PassedOver(mregistry[i]))
    => /\ last.kind = "return"
       /\ last.val = None
       /\ EvaluatedPredicates = 1..Len(mregistry)

\* a call ran through a registry of two candidates, the first with a false
\* predicate, the second matching and then declining, and returned None
C11_Witness ==
    /\ last.op = "mcall"
    /\ Len(mregistry) = 2
    /\ ~PredicateTrue(mregistry[1])
    /\ PredicateTrue(mregistry[2])
    /\ IsSignal(ImplementationOutcome(mregistry[2]))
    /\ last.kind = "return"
    /\ last.val = None

-----------------------------------------------------------------------------
(* The fallback among other candidates (checked under SpecFallback).       *)

\* where the fallback, the first candidate dispatch() created, stands
FallbackIndex == CHOOSE i \in 1..Len(registry) : registry[i].id = 1

\* the last operation was a call in which no candidate but the fallback
\* takes the value and none raises a failure
OnlyFallbackApplies ==
    /\ last.op = "call"
    /\ \A j \in (1..Len(registry)) \ {FallbackIndex} :
           /\ ~Takes(j)
           /\ ~IsFailure(PredicateOutcome(registry[j]))

\* the fallback's predicate is true for every value
FallbackMatchesAll ==
    \A x \in Values :
        CallPredicate(registry[FallbackIndex].validate, x) = Returned(Bool(TRUE))

\* C12: in a factory-built engine, after any registrations, the fallback's
\* predicate is true for every value, and a call in which no other
\* candidate takes the value (and none fails) invokes the fallback and ends
\* with the fallback's own outcome, never with the None of an exhausted loop.
C12_FallbackOutcomeSurfaces ==
    built =>
        /\ FallbackMatchesAll
        /\ OnlyFallbackApplies =>
               /\ FallbackIndex \in InvokedImplementations
               /\ [kind |-> last.kind, val |-> last.val]
                      = ImplementationOutcome(registry[FallbackIndex])

-----------------------------------------------------------------------------
(* The two string builders (checked under SpecCompile).                    *)

\* where the builder of that name stands in the Check Compiler's registry
BuilderIndex(name) ==
    CHOOSE i \in 1..Len(mregistry) : mregistry[i].func = Func(name)

\* the place in the call's trace where candidate i was invoked, 0 if never
InvokedAt(i) ==
    LET at == {n \in 1..Len(last.trace) :
                  last.trace[n].ev = "invoke" /\ last.trace[n].i = i}
    IN  IF at = {} THEN 0 ELSE CHOOSE n \in at : TRUE

\* the last operation compiled a name string
CompiledString == last.op = "mcall" /\ last.x.k = "str"

\* what the forward-reference builder does with the string under the scope
\* of the call
ForwardRefOutcome == create_checker_forward_ref(last.x, last.kwargs)

\* C13: when the Check Compiler compiles a name string, the
\* forward-reference builder (102) stands before the import-path builder
\* (103) and, with the five default builders alone, is always attempted;
\* the import-path builder is invoked only after the forward-reference
\* builder was invoked and raised NextDispatch; when the forward-reference
\* builder resolves the name, its predicate is the result and the
\* import-path builder is not invoked.
C13_ForwardRefBeforeImport ==
    LET fr == BuilderIndex("create_checker_forward_ref")
        im == BuilderIndex("create_checker_import_via_str")
    IN  /\ fr < im
        /\ mregistry[fr].priority = 102 /\ mregistry[im].priority = 103
        /\ CompiledString =>
               /\ mregistry = create_default_metadispatcher => InvokedAt(fr) > 0
               /\ InvokedAt(im) > 0 =>
                      /\ InvokedAt(fr) > 0
                      /\ InvokedAt(fr) < InvokedAt(im)
                      /\ IsSignal(ForwardRefOutcome)
               /\ (InvokedAt(fr) > 0 /\ ForwardRefOutcome.kind = "return") =>
                      /\ [kind |-> last.kind, val |-> last.val] = ForwardRefOutcome
                      /\ InvokedAt(im) = 0

\* a name the scope does not bind was compiled: the forward-reference
\* builder declined and the import-path builder's predicate came back
C13_Witness ==
    /\ CompiledString
    /\ last.kwargs = WithGlobals("app")
    /\ InvokedAt(BuilderIndex("create_checker_forward_ref")) > 0
    /\ InvokedAt(BuilderIndex("create_checker_import_via_str")) > 0
    /\ last.kind = "return"
    /\ last.val = Closure("import", last.x)

-----------------------------------------------------------------------------
(* What the Check Compiler returns (checked under SpecCompile).            *)

\* the last operation was a call of the Check Compiler that returned
Compiled == last.op = "mcall" /\ last.kind = "return"

\* builder i's guard is true on the specification of the call
GuardMatched(i) == PredicateTrue(mregistry[i])

\* C14 as stated: a Check Compiler (the default builders and any a caller
\* added) returns a predicate or None, and None only if no builder's guard
\* matched the specification.
C14_AbsentOnlyUnmatched ==
    Compiled =>
        /\ last.val = None \/ Callable(last.val)
        /\ last.val = None => \A i \in 1..Len(mregistry) : ~GuardMatched(i)

\* C14 as amended: with the five default builders alone, the call returns
\* a predicate or None, and None exactly when no guard matched; with added
\* builders None is also what comes back when every builder whose guard
\* matched declined with NextDispatch, and when the first builder that
\* matched without declining returned None itself.
C14_AbsentUnlessTaken ==
    Compiled =>
        /\ mregistry = create_default_metadispatcher =>
               /\ last.val = None \/ Callable(last.val)
               /\ last.val = None <=> \A i \in 1..Len(mregistry) : ~GuardMatched(i)
        /\ last.val = None =>
               \/ \A i \in 1..Len(mregistry) :
                      GuardMatched(i) => IsSignal(ImplementationOutcome(mregistry[i]))
               \/ \E i \in 1..Len(mregistry) :
                      /\ Takes(i)
                      /\ ImplementationOutcome(mregistry[i]) = Returned(None)
                      /\ \A j \in 1..(i - 1) : ~Takes(j)
        /\ (\E i \in 1..Len(mregistry) :
                /\ Takes(i)
                /\ ImplementationOutcome(mregistry[i]) # Returned(None)
                /\ \A j \in 1..(i - 1) : ~Takes(j))
           => last.val # None

\* on a compiler with added builders, a builder whose guard matched
\* declined and a later builder's predicate came back
C14_Witness ==
    /\ Compiled
    /\ Len(mregistry) > Len(create_default_metadispatcher)
    /\ last.val # None
    /\ \E i \in InvokedImplementations :
           /\ mregistry[i].func \notin DefaultBuilders
           /\ IsSignal(ImplementationOutcome(mregistry[i]))

-----------------------------------------------------------------------------
(* Callable specifications (checked under SpecCompile).                    *)

\* the default Check Compiler, no builder added, was just called
DefaultCompilerCalled ==
    last.op = "mcall" /\ mregistry = create_default_metadispatcher

\* C15 as stated: the default Check Compiler returns every callable
\* specification itself, the same object, as the predicate.
C15_CallableReturnedAsIs ==
    (DefaultCompilerCalled /\ Callable(last.x))
    => [kind |-> last.kind, val |-> last.val] = Returned(last.x)

\* C15 as amended: it returns itself every callable specification that is
\* neither a class nor a parameterized type; those two, callable as they
\* are, go to the builders at 100 and 101 and come back as instance-of and
\* check_type predicates.
C15_CallableButTypesReturnedAsIs ==
    (DefaultCompilerCalled /\ Callable(last.x))
    => [kind |-> last.kind, val |-> last.val] =
           CASE last.x.k = "type"    -> Returned(Closure("isinstance", last.x))
             [] last.x.k = "generic" -> Returned(Closure("check_type", last.x))
             [] OTHER                -> Returned(last.x)

\* a lambda was compiled by the default Check Compiler: the guards of the
\* four builders before the callable builder were false, and the lambda
\* came back
C15_Witness ==
    /\ DefaultCompilerCalled
    /\ last.x = Lambda("is_decimal")
    /\ last.val = last.x
    /\ EvaluatedPredicates = 1..5
    /\ InvokedImplementations = {5}

-----------------------------------------------------------------------------
(* SpecScope: both engines called with and without the reserved `_globals` *)
(* keyword, over implementations that declare it and implementations that  *)
(* do not, and registrations with check specifications of every kind (a    *)
(* name string, a predicate, an inferred type, a value no builder accepts).*)

ScopeBases == {<<None>>, <<Func("scoped")>>}
\* register(check, priority) calls: <<check, priority>>
ScopeDecorators == {<<None, NoPriority>>,
                    <<PyStr(s_numbers_Number), NoPriority>>,
                    <<[k |-> "obj", t |-> "int"], NoPriority>>,
                    <<Lambda("is_int"), <<0>>>>}
ScopeFuncs == {Func("scoped"), Func("on_decimal")}
ScopeKwargs == {NoKwargs, WithGlobals("app")}

NextScope ==
    \/ \E func \in ScopeBases : Dispatch(func)
    \/ \E d \in ScopeDecorators : Register(d[1], d[2])
    \/ \E func \in ScopeFuncs : Wrap(func)
    \/ \E x \in CallValues, kwargs \in ScopeKwargs : Call(x, kwargs)
    \/ MRegister(Lambda("is_str"), <<0>>, Func("build_decline"))
    \/ \E x \in {PyStr(s_Decimal), PyStr(s_decimal_Decimal)},
          kwargs \in ScopeKwargs : MCall(x, kwargs)

SpecScope == Init /\ [][NextScope]_vars

\* every implementation the call invoked was given keyword arguments `given`
\* says it should be given
InvokedWith(given(_)) ==
    \A n \in 1..Len(last.trace) :
        last.trace[n].ev = "invoke" =>
            last.trace[n].kwargs = given(CalledRegistry[last.trace[n].i])

\* `_globals` removed unless the implementation declares the parameter
Stripped(c) == IF DeclaresGlobals(c.func.name) THEN last.kwargs ELSE NoKwargs

\* the keyword arguments as the caller gave them
Unchanged(c) == last.kwargs

\* C16 as stated: the engine the Dispatch Factory builds removes `_globals`
\* from the keyword arguments of a call before it invokes an implementation
\* that does not declare it, and forwards it to one that does.
C16_FactoryStripsScope ==
    last.op = "call" => InvokedWith(Stripped)

\* C16 as amended: the strict engine (metadispatch, the Check Compiler) is
\* the one that removes `_globals` for an implementation that does not
\* declare it and forwards it to one that does; the factory-built engine
\* forwards the keyword arguments of the call unchanged to every
\* implementation, and the value of the call as it came.
C16_StrictStripsScope ==
    /\ last.op = "mcall" => InvokedWith(Stripped)
    /\ last.op = "call" =>
           /\ InvokedWith(Unchanged)
           /\ (last.kind = "return" /\ last.val # None) => last.val.arg = last.x

\* the Check Compiler was called with `_globals`: the forward-reference
\* builder, which declares it, received it and declined; the import-path
\* builder, which does not, was invoked without it
C16_Witness ==
    /\ last.op = "mcall"
    /\ last.kwargs = WithGlobals("app")
    /\ \E n, m \in 1..Len(last.trace) :
           /\ last.trace[n] = Invoked(BuilderIndex("create_checker_forward_ref"),
                                      WithGlobals("app"))
           /\ last.trace[m] = Invoked(BuilderIndex("create_checker_import_via_str"),
                                      NoKwargs)
    /\ last.kind = "return"

\* C18: in a factory-built engine every candidate of the registry holds a
\* predicate, never the None the Check Compiler returns for a check
\* specification none of its builders accepts.
C18_EveryCandidateHasPredicate ==
    built => \A i \in 1..Len(registry) : registry[i].validate # None

-----------------------------------------------------------------------------
(* The registries over time (checked under SpecRegister).                  *)

\* `new` is `old` with one candidate inserted somewhere: every candidate of
\* `old` is there, as it was, in the order it was in
Grew(old, new) ==
    /\ Len(new) = Len(old) + 1
    /\ \E k \in 1..Len(new) :
           old = SubSeq(new, 1, k - 1) \o SubSeq(new, k + 1, Len(new))

\* what one operation does to the two registries
RegistryStep ==
    /\ registry' = registry \/ Grew(registry, registry')
    /\ mregistry' = mregistry \/ Grew(mregistry, mregistry')
    /\ last'.op \in {"call", "mcall", "check", "register"} =>
           registry' = registry /\ mregistry' = mregistry
    /\ (last'.op = "wrap" /\ last'.kind = "return") =>
           Grew(registry, registry') /\ mregistry' = mregistry
    /\ (last'.op = "wrap" /\ last'.kind = "raise") =>
           registry' = registry /\ mregistry' = mregistry
    /\ last'.op = "mregister" =>
           Grew(mregistry, mregistry') /\ registry' = registry
    /\ (last'.op = "dispatch" /\ built' /\ ~built) =>
           registry = <<>> /\ Len(registry') = 1

\* C17: a registry only grows: every successful register adds exactly one
\* candidate and leaves the candidates that were there present, unchanged
\* (predicate, implementation, priority) and in their relative order; a
\* failed register and a call leave both registries as they were.
C17_RegistryOnlyGrows == [][RegistryStep]_vars

\* a registration put its candidate between two candidates that were
\* already there
C17_Witness ==
    /\ last.op = "wrap"
    /\ last.kind = "return"
    /\ Len(registry) = 3
    /\ registry[2].id = 3

-----------------------------------------------------------------------------
(* One pass over the registry (checked under Spec).                        *)

\* the trace of a call evaluates candidates in ascending registry order,
\* each predicate at most once, each implementation at most once and only
\* right after its own predicate
OnePass(trace, reg) ==
    /\ \A n \in 1..Len(trace) :
           /\ trace[n].i \in 1..Len(reg)
           /\ trace[n].ev = "invoke" =>
                  n > 1 /\ trace[n - 1] = Validated(trace[n].i)
    /\ \A m, n \in 1..Len(trace) :
           m < n =>
               \/ trace[m].i < trace[n].i
               \/ /\ trace[m].i = trace[n].i
                  /\ n = m + 1
                  /\ trace[m].ev = "validate"
                  /\ trace[n].ev = "invoke"

\* C19: every call, on either engine, ends (with a result, None or a
\* propagated failure) after one pass over the registry: each candidate's
\* predicate is evaluated at most once and its implementation invoked at
\* most once, in ascending registry order, and a candidate that declined is
\* not tried again.
C19_OnePassPerCall ==
    Called =>
        /\ last.kind \in {"return", "raise"}
        /\ OnePass(last.trace, CalledRegistry)
        /\ Len(last.trace) <= 2 * Len(CalledRegistry)

\* a call of the factory-built engine went through three candidates, one
\* of which matched and declined
C19_Witness ==
    /\ last.op = "call"
    /\ EvaluatedPredicates = 1..3
    /\ \E i \in InvokedImplementations :
           IsSignal(ImplementationOutcome(registry[i]))
====
